---- MODULE Spec2Model ----
(***************************************************************************)
(* jj-starship: a prompt segment for Git / JJ repositories.                *)
(*                                                                         *)
(* Text is modelled as a sequence of characters.  A character is a one     *)
(* element token: ASCII characters stand for themselves, the non-ASCII     *)
(* glyphs and the ANSI colour sequences have names ("ELLIPSIS", "UP",      *)
(* "BLUE", ...).  Utf8Len gives the number of bytes a character takes in   *)
(* UTF-8, so that character counts and byte counts differ.                 *)
(***************************************************************************)
EXTENDS Naturals, Sequences, FiniteSets

VARIABLES
    pc,        \* position of main / run_prompt
    cli,       \* parsed command line (Cli)
    world,     \* what the process finds outside: cwd, features, directory chain
    cwd,       \* Option<PathBuf> resolved by main
    config,    \* Option<Config> built by main
    result,    \* Option<DetectResult> of run_prompt
    collected, \* Option<Result<Info>> of the backend reader
    output,    \* Option<Option<String>>: what run_prompt returned
    stdout,    \* characters printed
    exitCode,  \* Option<ExitCode>
    fmtCalls,  \* number of calls of format_jj / format_git
    call,      \* a call of one of the pure functions: its name and arguments
    ret        \* the value that call returned

vars == <<pc, cli, world, cwd, config, result, collected, output, stdout,
          exitCode, fmtCalls, call, ret>>

mainVars == <<pc, cli, world, cwd, config, result, collected, output, stdout,
              exitCode, fmtCalls>>

-----------------------------------------------------------------------------
(* Bounds of the model *)

\* longest name (branch / bookmark) given to truncate
MaxLen == 3
\* largest configured maximum name length
MaxTrunc == 4
\* largest per-category file count in a Git snapshot
MaxCount == 1
\* deepest working directory below the filesystem root
MaxDepth == 1

-----------------------------------------------------------------------------
(* Option and Result *)

None == [some |-> FALSE]
Some(v) == [some |-> TRUE, val |-> v]
Err(e) == [ok |-> FALSE, err |-> e]
Ok(v) == [ok |-> TRUE, val |-> v]

\* Option::or_else / Option::unwrap_or
OrElse(o, alt) == IF o.some THEN o ELSE alt
UnwrapOr(o, d) == IF o.some THEN o.val ELSE d

-----------------------------------------------------------------------------
(* Characters and strings *)

ELLIPSIS == "ELLIPSIS"

\* s.chars().count()
CharCount(s) == Len(s)

\* s.chars().take(k).collect()
Take(s, k) == SubSeq(s, 1, IF k < Len(s) THEN k ELSE Len(s))

RECURSIVE SeqsUpTo(_, _)
\* all strings over alphabet A of at most k characters
SeqsUpTo(A, k) ==
    IF k = 0 THEN {<<>>}
    ELSE LET shorter == SeqsUpTo(A, k - 1)
         IN  shorter \cup {Append(s, c) : s \in {t \in shorter : Len(t) = k - 1}, c \in A}

-----------------------------------------------------------------------------
(* Config::truncate *)

\* bytes of a character in UTF-8
Utf8Len(c) ==
    CASE c = "e_acute" -> 2
      [] c \in {"ELLIPSIS", "UP", "DOWN", "DIVERGENT", "CROSS"} -> 3
      [] c \in {"JJ_GLYPH", "GIT_GLYPH"} -> 4
      [] OTHER -> 1

RECURSIVE ByteLen(_)
\* str::len: the length in bytes
ByteLen(s) == IF s = <<>> THEN 0 ELSE Utf8Len(Head(s)) + ByteLen(Tail(s))

\* truncate with the length taken in bytes (str::len)
TruncateByBytes(truncate_name, s) ==
    IF truncate_name = 0 \/ ByteLen(s) <= truncate_name THEN s
    ELSE IF truncate_name <= 1 THEN <<ELLIPSIS>>
    ELSE Take(s, truncate_name - 1) \o <<ELLIPSIS>>

\* truncate with a strict comparison
TruncateStrict(truncate_name, s) ==
    IF truncate_name = 0 \/ CharCount(s) < truncate_name THEN s
    ELSE IF truncate_name <= 1 THEN <<ELLIPSIS>>
    ELSE Take(s, truncate_name - 1) \o <<ELLIPSIS>>

Truncate(truncate_name, s) ==
    IF truncate_name = 0 \/ CharCount(s) <= truncate_name THEN s
    ELSE IF truncate_name <= 1 THEN <<ELLIPSIS>>
    ELSE Take(s, truncate_name - 1) \o <<ELLIPSIS>>

-----------------------------------------------------------------------------
(* Calls of the pure functions *)

NoCall == [fn |-> "none"]
NotReturned == [done |-> FALSE]
Returned(v) == [done |-> TRUE, val |-> v]

\* the state of main before it starts; kept by the pure-function specifications
MainIdle ==
    /\ pc = "idle"
    /\ cli = [command |-> None, cwd |-> None]
    /\ world = [current_dir_ok |-> TRUE]
    /\ cwd = None
    /\ config = None
    /\ result = None
    /\ collected = None
    /\ output = None
    /\ stdout = <<>>
    /\ exitCode = None
    /\ fmtCalls = 0

\* names with one-, two- and three-byte characters
TruncChars == {"a", "e_acute", ELLIPSIS}

InitTruncate ==
    /\ MainIdle
    /\ call \in [fn : {"truncate"}, s : SeqsUpTo(TruncChars, MaxLen),
                 truncate_name : 0 .. MaxTrunc]
    /\ ret = NotReturned

ApplyTruncate ==
    /\ call.fn = "truncate"
    /\ ~ret.done
    /\ ret' = Returned(Truncate(call.truncate_name, call.s))
    /\ UNCHANGED <<call, mainVars>>

SpecTruncate == InitTruncate /\ [][ApplyTruncate]_vars

-----------------------------------------------------------------------------
(* C5 as amended: with a maximum of 1, a name of more than one character   *)
(* becomes a single ellipsis, and a name of at most one character is       *)
(* returned unchanged.                                                     *)
C5_TruncateOne ==
    (call.fn = "truncate" /\ ret.done /\ call.truncate_name = 1) =>
        /\ CharCount(call.s) > 1 => ret.val = <<ELLIPSIS>>
        /\ CharCount(call.s) <= 1 => ret.val = call.s

C5_Witness ==
    /\ call.fn = "truncate" /\ ret.done /\ call.truncate_name = 1
    /\ CharCount(call.s) = 3 /\ call.s[1] = "a"
    /\ ret.val = <<ELLIPSIS>>

\* C5 as stated: truncate(s, 1) is a single ellipsis for every s
C5_Original ==
    (call.fn = "truncate" /\ ret.done /\ call.truncate_name = 1) =>
        ret.val = <<ELLIPSIS>>

(* C6: truncate(s, 0) = s; truncate(s, n) = s when n >= charCount(s); for  *)
(* 1 < n < charCount(s) the result has exactly n characters: the first     *)
(* n - 1 characters of s and one ellipsis.  Lengths are in characters.     *)
C6_TruncateLaw ==
    (call.fn = "truncate" /\ ret.done) =>
        LET s == call.s
            n == call.truncate_name
            r == ret.val
        IN  /\ n = 0 => r = s
            /\ n >= CharCount(s) => r = s
            /\ (1 < n /\ n < CharCount(s)) =>
                  /\ CharCount(r) = n
                  /\ \A i \in 1 .. n - 1 : r[i] = s[i]
                  /\ r[n] = ELLIPSIS

C6_Witness ==
    /\ call.fn = "truncate" /\ ret.done
    /\ call.truncate_name = 2 /\ call.s = <<"e_acute", "e_acute", "a">>
    /\ ret.val = <<"e_acute", ELLIPSIS>>

-----------------------------------------------------------------------------
(* Output formatting (output.rs) *)

\* ANSI colour sequences (crate::color): opaque, none is a space
BLUE == "BLUE"
GREEN == "GREEN"
PURPLE == "PURPLE"
RED == "RED"
RESET == "RESET"

DEFAULT_JJ_SYMBOL == <<"JJ_GLYPH", " ">>
DEFAULT_GIT_SYMBOL == <<"GIT_GLYPH", " ">>

AllVisible ==
    [show_prefix |-> TRUE, show_name |-> TRUE, show_id |-> TRUE,
     show_status |-> TRUE, show_color |-> TRUE]

DefaultConfig ==
    [truncate_name |-> 0, id_length |-> 8,
     jj_symbol |-> DEFAULT_JJ_SYMBOL, git_symbol |-> DEFAULT_GIT_SYMBOL,
     jj_display |-> AllVisible, git_display |-> AllVisible]

FormatSegment(text, color, show_color) ==
    IF show_color THEN <<color>> \o text \o <<RESET>> ELSE text

\* a separator pushed before every section, also the first
PushSpaceAlways(out) == Append(out, " ")

\* if !out.is_empty() { out.push(' ') }
PushSpace(out) == IF out # <<>> THEN Append(out, " ") ELSE out

Digit(d) ==
    CASE d = 0 -> "0" [] d = 1 -> "1" [] d = 2 -> "2" [] d = 3 -> "3"
      [] d = 4 -> "4" [] d = 5 -> "5" [] d = 6 -> "6" [] d = 7 -> "7"
      [] d = 8 -> "8" [] d = 9 -> "9"

RECURSIVE Decimal(_)
\* Display for usize
Decimal(n) == IF n < 10 THEN <<Digit(n)>> ELSE Append(Decimal(n \div 10), Digit(n % 10))

\* the JJ name: the truncated bookmark, or the change id
JjName(info, cfg) ==
    IF info.bookmark.some THEN Truncate(cfg.truncate_name, info.bookmark.val)
    ELSE info.change_id

\* the id is shown whenever show_id is set
JjIdShownNoDedup(info, cfg) == cfg.jj_display.show_id

\* display.show_id && *name != info.change_id
JjIdShown(info, cfg) ==
    cfg.jj_display.show_id /\ JjName(info, cfg) # info.change_id

\* the JJ indicators with the unsynced mark first
JjStatusUnsyncedFirst(info) ==
    (IF info.has_remote /\ ~info.is_synced THEN <<"UP">> ELSE <<>>)
    \o (IF info.conflict THEN <<"!">> ELSE <<>>)
    \o (IF info.divergent THEN <<"DIVERGENT">> ELSE <<>>)
    \o (IF info.empty_desc THEN <<"?">> ELSE <<>>)

JjStatus(info) ==
    LET s1 == IF info.conflict THEN <<"!">> ELSE <<>>
        s2 == IF info.divergent THEN Append(s1, "DIVERGENT") ELSE s1
        s3 == IF info.empty_desc THEN Append(s2, "?") ELSE s2
        s4 == IF info.has_remote /\ ~info.is_synced THEN Append(s3, "UP") ELSE s3
    IN  s4

FormatJj(info, cfg) ==
    LET display == cfg.jj_display
        out1 == IF display.show_prefix
                THEN <<"o", "n", " ">> \o FormatSegment(cfg.jj_symbol, BLUE, display.show_color)
                ELSE <<>>
        name == JjName(info, cfg)
        out2 == IF display.show_name
                THEN out1 \o FormatSegment(name, PURPLE, display.show_color)
                ELSE out1
        out3 == IF JjIdShown(info, cfg)
                THEN PushSpace(out2)
                     \o FormatSegment(<<"(">> \o info.change_id \o <<")">>, GREEN,
                                      display.show_color)
                ELSE out2
        status == JjStatus(info)
        out4 == IF display.show_status /\ status # <<>>
                THEN PushSpace(out3)
                     \o FormatSegment(<<"[">> \o status \o <<"]">>, RED, display.show_color)
                ELSE out3
    IN  out4

\* the Git indicators with the counts written also when zero
GitStatusZeroCounts(info) ==
    (IF info.conflicted > 0 THEN <<"=">> ELSE <<>>)
    \o (IF info.staged > 0 THEN <<"+">> ELSE <<>>)
    \o (IF info.modified > 0 THEN <<"!">> ELSE <<>>)
    \o (IF info.untracked > 0 THEN <<"?">> ELSE <<>>)
    \o (IF info.deleted > 0 THEN <<"CROSS">> ELSE <<>>)
    \o <<"UP">> \o Decimal(info.ahead) \o <<"DOWN">> \o Decimal(info.behind)

GitStatus(info) ==
    LET s1 == IF info.conflicted > 0 THEN <<"=">> ELSE <<>>
        s2 == IF info.staged > 0 THEN Append(s1, "+") ELSE s1
        s3 == IF info.modified > 0 THEN Append(s2, "!") ELSE s2
        s4 == IF info.untracked > 0 THEN Append(s3, "?") ELSE s3
        s5 == IF info.deleted > 0 THEN Append(s4, "CROSS") ELSE s4
        s6 == IF info.ahead > 0 THEN Append(s5, "UP") \o Decimal(info.ahead) ELSE s5
        s7 == IF info.behind > 0 THEN Append(s6, "DOWN") \o Decimal(info.behind) ELSE s6
    IN  s7

FormatGit(info, cfg) ==
    LET display == cfg.git_display
        out1 == IF display.show_prefix
                THEN <<"o", "n", " ">> \o FormatSegment(cfg.git_symbol, BLUE, display.show_color)
                ELSE <<>>
        name == IF info.branch.some THEN Truncate(cfg.truncate_name, info.branch.val)
                ELSE <<"H", "E", "A", "D">>
        out2 == IF display.show_name
                THEN out1 \o FormatSegment(name, PURPLE, display.show_color)
                ELSE out1
        out3 == IF display.show_id
                THEN PushSpace(out2)
                     \o FormatSegment(<<"(">> \o info.head_short \o <<")">>, GREEN,
                                      display.show_color)
                ELSE out2
        status == GitStatus(info)
        out4 == IF display.show_status /\ status # <<>>
                THEN PushSpace(out3)
                     \o FormatSegment(<<"[">> \o status \o <<"]">>, RED, display.show_color)
                ELSE out3
    IN  out4

-----------------------------------------------------------------------------
(* Formatting as a pure function of a snapshot and a configuration *)

DisplayConfigs ==
    [show_prefix : BOOLEAN, show_name : BOOLEAN, show_id : BOOLEAN,
     show_status : BOOLEAN, show_color : BOOLEAN]

\* symbols: none (--no-symbol), a bare glyph, the default glyph and space
JjSymbols == {<<>>, <<"JJ_GLYPH">>, DEFAULT_JJ_SYMBOL}
GitSymbols == {<<>>, DEFAULT_GIT_SYMBOL}

FormatTruncs == {0, 2}

ChangeIds == {<<"k", "z">>}
\* bookmark names: short, long, and one spelled like the change id
Bookmarks == {<<"m">>, <<"m", "a", "i", "n">>, <<"k", "z">>}
Branches == {<<"m">>, <<"m", "a", "i", "n">>}
HeadShorts == {<<"a", "3">>}
\* ahead / behind counts: none, one digit, two digits
AheadBehind == {0, 3, 12}

JjInfos ==
    [change_id : ChangeIds,
     bookmark : {None} \cup {Some(b) : b \in Bookmarks},
     empty_desc : BOOLEAN, conflict : BOOLEAN, divergent : BOOLEAN,
     has_remote : BOOLEAN, is_synced : BOOLEAN]

GitInfos ==
    [branch : {None} \cup {Some(b) : b \in Branches},
     head_short : HeadShorts,
     staged : 0 .. MaxCount, modified : 0 .. MaxCount, untracked : 0 .. MaxCount,
     deleted : 0 .. MaxCount, conflicted : 0 .. MaxCount,
     ahead : AheadBehind, behind : AheadBehind]

JjFormatConfigs ==
    {[DefaultConfig EXCEPT !.truncate_name = t, !.jj_symbol = s, !.jj_display = d] :
        t \in FormatTruncs, s \in JjSymbols, d \in DisplayConfigs}

GitFormatConfigs ==
    {[DefaultConfig EXCEPT !.truncate_name = t, !.git_symbol = s, !.git_display = d] :
        t \in FormatTruncs, s \in GitSymbols, d \in DisplayConfigs}

InitFormat ==
    /\ MainIdle
    /\ \/ call \in [fn : {"format_jj"}, info : JjInfos, config : JjFormatConfigs]
       \/ call \in [fn : {"format_git"}, info : GitInfos, config : GitFormatConfigs]
    /\ ret = NotReturned

ApplyFormatJj ==
    /\ call.fn = "format_jj"
    /\ ~ret.done
    /\ ret' = Returned(FormatJj(call.info, call.config))
    /\ UNCHANGED <<call, mainVars>>

ApplyFormatGit ==
    /\ call.fn = "format_git"
    /\ ~ret.done
    /\ ret' = Returned(FormatGit(call.info, call.config))
    /\ UNCHANGED <<call, mainVars>>

NextFormat == ApplyFormatJj \/ ApplyFormatGit

SpecFormat == InitFormat /\ [][NextFormat]_vars

Chars(s) == {s[i] : i \in DOMAIN s}

FormattedJj == call.fn = "format_jj" /\ ret.done
FormattedGit == call.fn = "format_git" /\ ret.done

-----------------------------------------------------------------------------
(* C4 as amended: with show_id set, the parenthesized id segment appears   *)
(* exactly when the displayed name differs from the change id.  Without a  *)
(* bookmark it never appears; with a bookmark it appears unless the        *)
(* bookmark, after truncation, is spelled exactly like the change id.      *)
C4_Dedup ==
    (FormattedJj /\ call.config.jj_display.show_id) =>
        LET info == call.info
            shown == "(" \in Chars(ret.val)
        IN  /\ ~info.bookmark.some => ~shown
            /\ info.bookmark.some =>
                 (shown <=> Truncate(call.config.truncate_name, info.bookmark.val)
                              # info.change_id)

C4_Witness ==
    /\ FormattedJj /\ call.config.jj_display.show_id
    /\ call.info.bookmark = Some(<<"m", "a", "i", "n">>)
    /\ call.config.truncate_name = 2
    /\ "(" \in Chars(ret.val)

\* C4 as stated: with a bookmark present the id segment always appears
C4_Original ==
    (FormattedJj /\ call.config.jj_display.show_id) =>
        /\ ~call.info.bookmark.some => ~("(" \in Chars(ret.val))
        /\ call.info.bookmark.some => "(" \in Chars(ret.val)

-----------------------------------------------------------------------------
RECURSIVE JoinSpace(_)
\* the non-empty texts of a list, in order, with exactly one space between
\* each two of them and none before the first
JoinSpace(texts) ==
    IF texts = <<>> THEN <<>>
    ELSE LET rest == JoinSpace(Tail(texts))
         IN  IF Head(texts) = <<>> THEN rest
             ELSE IF rest = <<>> THEN Head(texts)
             ELSE Head(texts) \o <<" ">> \o rest

\* the text of a snapshot's sections, as the template names them: the
\* prefix and the name (which the template does not separate), the id, the
\* status; a hidden or absent section is the empty text.  The prefix is
\* "on " and the symbol: with an empty symbol, or one that ends in a space,
\* the prefix text itself ends in a space
SectionTexts ==
    LET jj == call.fn = "format_jj"
        cfg == call.config
        info == call.info
        display == IF jj THEN cfg.jj_display ELSE cfg.git_display
        symbol == IF jj THEN cfg.jj_symbol ELSE cfg.git_symbol
        color(text, c) == IF display.show_color THEN <<c>> \o text \o <<RESET>> ELSE text
        name == IF jj
                THEN (IF info.bookmark.some
                      THEN Truncate(cfg.truncate_name, info.bookmark.val)
                      ELSE info.change_id)
                ELSE (IF info.branch.some
                      THEN Truncate(cfg.truncate_name, info.branch.val)
                      ELSE <<"H", "E", "A", "D">>)
        id == IF jj THEN info.change_id ELSE info.head_short
        idVisible == display.show_id /\ (jj => name # info.change_id)
        status == IF jj THEN JjStatus(info) ELSE GitStatus(info)
    IN  << (IF display.show_prefix THEN <<"o", "n", " ">> \o color(symbol, BLUE) ELSE <<>>)
           \o (IF display.show_name THEN color(name, PURPLE) ELSE <<>>),
           IF idVisible THEN color(<<"(">> \o id \o <<")">>, GREEN) ELSE <<>>,
           IF display.show_status /\ status # <<>>
           THEN color(<<"[">> \o status \o <<"]">>, RED) ELSE <<>> >>

-----------------------------------------------------------------------------
\* the characters between the brackets of the status section, if there is one
StatusOf(out) ==
    IF "[" \notin Chars(out) THEN None
    ELSE LET i == CHOOSE k \in DOMAIN out : out[k] = "["
             j == CHOOSE k \in DOMAIN out : out[k] = "]"
         IN  Some(SubSeq(out, i + 1, j - 1))

\* the indicators of a priority list whose condition holds, in its order
Indicators(priority, holds(_)) ==
    LET Test(p) == holds(p[2])
        sel == SelectSeq(priority, Test)
    IN  [i \in DOMAIN sel |-> sel[i][1]]

GitPriority ==
    << <<"=", "conflicted">>, <<"+", "staged">>, <<"!", "modified">>,
       <<"?", "untracked">>, <<"CROSS", "deleted">> >>

JjPriority ==
    << <<"!", "conflict">>, <<"DIVERGENT", "divergent">>, <<"?", "empty_desc">>,
       <<"UP", "unsynced">> >>

ExpectedStatus ==
    LET info == call.info
        GitHolds(f) == info[f] > 0
        JjHolds(f) == IF f = "unsynced" THEN info.has_remote /\ ~info.is_synced
                      ELSE info[f]
    IN  IF call.fn = "format_jj" THEN Indicators(JjPriority, JjHolds)
        ELSE Indicators(GitPriority, GitHolds)
             \o (IF info.ahead # 0 THEN <<"UP">> \o Decimal(info.ahead) ELSE <<>>)
             \o (IF info.behind # 0 THEN <<"DOWN">> \o Decimal(info.behind) ELSE <<>>)

(* C8: with the status section enabled, the rendered status lists exactly  *)
(* the indicators whose condition holds, in the backend's priority order   *)
(* (Git: = + ! ? CROSS, then UP N and DOWN N only when N is nonzero; JJ:   *)
(* ! DIVERGENT ? UP); without any indicator there is no status section.    *)
C8_FlagOrder ==
    (FormattedJj \/ FormattedGit) =>
        LET display == IF call.fn = "format_jj" THEN call.config.jj_display
                       ELSE call.config.git_display
            st == StatusOf(ret.val)
        IN  /\ (display.show_status /\ ExpectedStatus # <<>>) => st = Some(ExpectedStatus)
            /\ (~display.show_status \/ ExpectedStatus = <<>>) => st = None
            /\ (FormattedGit /\ st.some) =>
                  /\ "=" \in Chars(st.val) <=> call.info.conflicted > 0
                  /\ "+" \in Chars(st.val) <=> call.info.staged > 0
                  /\ "!" \in Chars(st.val) <=> call.info.modified > 0
                  /\ "?" \in Chars(st.val) <=> call.info.untracked > 0
                  /\ "CROSS" \in Chars(st.val) <=> call.info.deleted > 0
                  /\ "UP" \in Chars(st.val) <=> call.info.ahead # 0
                  /\ "DOWN" \in Chars(st.val) <=> call.info.behind # 0
            /\ (FormattedJj /\ st.some) =>
                  /\ "!" \in Chars(st.val) <=> call.info.conflict
                  /\ "DIVERGENT" \in Chars(st.val) <=> call.info.divergent
                  /\ "?" \in Chars(st.val) <=> call.info.empty_desc
                  /\ "UP" \in Chars(st.val) <=>
                        (call.info.has_remote /\ ~call.info.is_synced)

C8_Witness ==
    /\ FormattedGit
    /\ call.config.git_display.show_status
    /\ call.info.conflicted = 0 /\ call.info.staged = 1 /\ call.info.modified = 1
    /\ call.info.untracked = 1 /\ call.info.deleted = 0
    /\ call.info.ahead = 12 /\ call.info.behind = 12
    /\ StatusOf(ret.val) = Some(<<"+", "!", "?", "UP", "1", "2", "DOWN", "1", "2">>)

-----------------------------------------------------------------------------
(* Configuration (config.rs) *)

(* The process environment maps a variable name to its entry: unset, set   *)
(* to text (valid Unicode), or set to bytes that are not valid Unicode.    *)
Unset == [st |-> "unset"]
NotUnicode == [st |-> "bytes"]
Text(s) == [st |-> "text", val |-> s]

\* std::env::var: an error when the variable is not set and when its value
\* is not valid Unicode
EnvVar(env, name) ==
    CASE env[name].st = "text" -> Ok(env[name].val)
      [] env[name].st = "bytes" -> Err("NotUnicode")
      [] OTHER -> Err("NotPresent")

\* format!("{env_prefix}_PREFIX")
EnvName(env_prefix, suffix) == <<env_prefix, suffix>>

NO_JJ == "JJ_STARSHIP_NO_JJ"
NO_GIT == "JJ_STARSHIP_NO_GIT"
Suffixes == {"_PREFIX", "_NAME", "_ID", "_STATUS", "_COLOR"}
SwitchNames(env_prefix) == {EnvName(env_prefix, s) : s \in Suffixes}

TRUNCATE_NAME == <<"JJ_STARSHIP_TRUNCATE_NAME">>
ID_LENGTH == <<"JJ_STARSHIP_ID_LENGTH">>
JJ_SYMBOL == <<"JJ_STARSHIP_JJ_SYMBOL">>
GIT_SYMBOL == <<"JJ_STARSHIP_GIT_SYMBOL">>
ValueNames == {TRUNCATE_NAME, ID_LENGTH, JJ_SYMBOL, GIT_SYMBOL}

EnvNames == SwitchNames(NO_JJ) \cup SwitchNames(NO_GIT) \cup ValueNames

EmptyEnv == [n \in EnvNames |-> Unset]

\* !self.no_x && env::var(..).is_err()
Switch(flag, env, name) == ~flag /\ ~EnvVar(env, name).ok

\* DisplayFlags::into_config
IntoConfig(flags, env_prefix, env) ==
    [show_prefix |-> Switch(flags.no_prefix, env, EnvName(env_prefix, "_PREFIX")),
     show_name |-> Switch(flags.no_name, env, EnvName(env_prefix, "_NAME")),
     show_id |-> Switch(flags.no_id, env, EnvName(env_prefix, "_ID")),
     show_status |-> Switch(flags.no_status, env, EnvName(env_prefix, "_STATUS")),
     show_color |-> Switch(flags.no_color, env, EnvName(env_prefix, "_COLOR"))]

DigitChars == {"0", "1", "2", "3", "4", "5", "6", "7", "8", "9"}
DigitValue(c) == CHOOSE d \in 0 .. 9 : Digit(d) = c

RECURSIVE DigitsValue(_)
DigitsValue(s) ==
    IF s = <<>> THEN 0
    ELSE 10 * DigitsValue(SubSeq(s, 1, Len(s) - 1)) + DigitValue(s[Len(s)])

\* str::parse::<usize>: decimal digits after an optional "+"; anything else
\* (the empty string, a lone sign, a letter, a space) is an error
ParseUsize(s) ==
    LET digits == IF s # <<>> /\ Head(s) = "+" THEN Tail(s) ELSE s
    IN  IF digits = <<>> \/ \E i \in DOMAIN digits : digits[i] \notin DigitChars
        THEN Err("ParseIntError")
        ELSE Ok(DigitsValue(digits))

\* env::var(name).ok()?.parse().ok()
EnvParsed(env, name) ==
    LET v == EnvVar(env, name)
    IN  IF ~v.ok THEN None
        ELSE LET n == ParseUsize(v.val)
             IN  IF n.ok THEN Some(n.val) ELSE None

\* env::var(name).ok()
EnvText(env, name) ==
    LET v == EnvVar(env, name) IN IF v.ok THEN Some(v.val) ELSE None

\* the environment consulted before the command line
ResolveEnvFirst(given, fromEnv, default) == UnwrapOr(OrElse(fromEnv, given), default)

\* given.or_else(|| <environment>).unwrap_or(default)
Resolve(given, fromEnv, default) == UnwrapOr(OrElse(given, fromEnv), default)

\* Config::new
ConfigNew(a) ==
    [truncate_name |-> Resolve(a.truncate_name, EnvParsed(a.env, TRUNCATE_NAME), 0),
     id_length |-> Resolve(a.id_length, EnvParsed(a.env, ID_LENGTH), 8),
     jj_symbol |-> IF a.no_symbol THEN <<>>
                   ELSE Resolve(a.jj_symbol, EnvText(a.env, JJ_SYMBOL), DEFAULT_JJ_SYMBOL),
     git_symbol |-> IF a.no_symbol THEN <<>>
                    ELSE Resolve(a.git_symbol, EnvText(a.env, GIT_SYMBOL), DEFAULT_GIT_SYMBOL),
     jj_display |-> IntoConfig(a.jj_flags, NO_JJ, a.env),
     git_display |-> IntoConfig(a.git_flags, NO_GIT, a.env)]

-----------------------------------------------------------------------------
(* DisplayFlags::into_config as a function of flags and environment *)

DisplayFlags ==
    [no_prefix : BOOLEAN, no_name : BOOLEAN, no_id : BOOLEAN,
     no_status : BOOLEAN, no_color : BOOLEAN]

NoFlags ==
    [no_prefix |-> FALSE, no_name |-> FALSE, no_id |-> FALSE,
     no_status |-> FALSE, no_color |-> FALSE]

AllFlags ==
    [no_prefix |-> TRUE, no_name |-> TRUE, no_id |-> TRUE,
     no_status |-> TRUE, no_color |-> TRUE]

\* a switch variable: unset, empty, non-empty, not Unicode
SwitchValues == {Unset, Text(<<>>), Text(<<"0">>), NotUnicode}

\* environments: every setting of the switch variables of env_prefix, the
\* other backend's switch variables all set alike
SwitchEnvs(env_prefix) ==
    {[n \in EnvNames |->
        IF n \in SwitchNames(env_prefix) THEN own[n]
        ELSE IF n \in ValueNames THEN Unset ELSE other] :
        own \in [SwitchNames(env_prefix) -> SwitchValues], other \in SwitchValues}

InitDisplay ==
    /\ MainIdle
    /\ \E p \in {NO_JJ, NO_GIT} :
          call \in [fn : {"into_config"}, flags : DisplayFlags, env_prefix : {p},
                    env : SwitchEnvs(p)]
    /\ ret = NotReturned

ApplyIntoConfig ==
    /\ call.fn = "into_config"
    /\ ~ret.done
    /\ ret' = Returned(IntoConfig(call.flags, call.env_prefix, call.env))
    /\ UNCHANGED <<call, mainVars>>

SpecDisplay == InitDisplay /\ [][ApplyIntoConfig]_vars

FlagOf(flags, suffix) ==
    CASE suffix = "_PREFIX" -> flags.no_prefix [] suffix = "_NAME" -> flags.no_name
      [] suffix = "_ID" -> flags.no_id [] suffix = "_STATUS" -> flags.no_status
      [] suffix = "_COLOR" -> flags.no_color

ShowOf(display, suffix) ==
    CASE suffix = "_PREFIX" -> display.show_prefix [] suffix = "_NAME" -> display.show_name
      [] suffix = "_ID" -> display.show_id [] suffix = "_STATUS" -> display.show_status
      [] suffix = "_COLOR" -> display.show_color

(* C9: each of the five switches of a backend is visible if and only if    *)
(* its suppression flag is not given and its environment variable does not *)
(* exist; an existing variable disables the section whatever its value.    *)
C9_PresenceDisables ==
    (call.fn = "into_config" /\ ret.done) =>
        \A s \in Suffixes :
            ShowOf(ret.val, s) <=>
                (~FlagOf(call.flags, s)
                 /\ call.env[EnvName(call.env_prefix, s)].st = "unset")

-----------------------------------------------------------------------------
(* Config::new as a function of the command line and the environment *)

\* values of a numeric variable: unset, not Unicode, empty, a number, a
\* signed number, two digits, not a number
NumberValues ==
    {Unset, NotUnicode, Text(<<>>), Text(<<"2">>), Text(<<"+", "2">>),
     Text(<<"1", "2">>), Text(<<"x">>)}
IdLengthValues == {Unset, NotUnicode, Text(<<"6">>), Text(<<"x">>)}
JjSymbolValues == {Unset, NotUnicode, Text(<<>>), Text(<<"E">>)}
GitSymbolValues == {Unset, NotUnicode, Text(<<"F">>)}

\* environments: the four value variables set freely, the switch variables
\* all set alike
ValueEnvs ==
    {[n \in EnvNames |->
        CASE n = TRUNCATE_NAME -> t [] n = ID_LENGTH -> i
          [] n = JJ_SYMBOL -> j [] n = GIT_SYMBOL -> g
          [] OTHER -> sw] :
        t \in NumberValues, i \in IdLengthValues, j \in JjSymbolValues,
        g \in GitSymbolValues, sw \in {Unset, Text(<<>>)}}

ConfigArgs ==
    [fn : {"config_new"},
     truncate_name : {None, Some(0), Some(3)},
     id_length : {None, Some(4)},
     jj_symbol : {None, Some(<<"J">>)},
     git_symbol : {None, Some(<<"G">>)},
     no_symbol : BOOLEAN,
     jj_flags : {NoFlags, AllFlags},
     git_flags : {NoFlags, AllFlags},
     env : ValueEnvs]

InitConfig ==
    /\ MainIdle
    /\ call \in ConfigArgs
    /\ ret = NotReturned

ApplyConfigNew ==
    /\ call.fn = "config_new"
    /\ ~ret.done
    /\ ret' = Returned(ConfigNew(call))
    /\ UNCHANGED <<call, mainVars>>

SpecConfig == InitConfig /\ [][ApplyConfigNew]_vars

\* the number a variable's entry denotes, if it is set to the text of one
NumberIn(entry) ==
    IF entry.st = "text" /\ ParseUsize(entry.val).ok
    THEN Some(ParseUsize(entry.val).val) ELSE None

\* the text a variable's entry holds, if it is set to text
TextIn(entry) == IF entry.st = "text" THEN Some(entry.val) ELSE None

\* strict precedence: the command line, then the environment, then the default
Precedence(given, fromEnv, default) ==
    CASE given.some -> given.val
      [] ~given.some /\ fromEnv.some -> fromEnv.val
      [] OTHER -> default

(* C10 as amended: the maximum name length and the id length are the       *)
(* command-line value when given, otherwise the number the environment     *)
(* variable holds when it is set to Unicode text that parses as an         *)
(* unsigned integer, otherwise the default (0, 8).  With no_symbol given   *)
(* both symbols are empty, whatever the command line and the environment   *)
(* say; without it each symbol is the command-line value when given,       *)
(* otherwise the variable's text when it is set to Unicode text, otherwise *)
(* the backend's default glyph.                                            *)
C10_Precedence ==
    (call.fn = "config_new" /\ ret.done) =>
        LET env == call.env
            cfg == ret.val
        IN  /\ cfg.truncate_name =
                  Precedence(call.truncate_name, NumberIn(env[TRUNCATE_NAME]), 0)
            /\ cfg.id_length =
                  Precedence(call.id_length, NumberIn(env[ID_LENGTH]), 8)
            /\ call.no_symbol => cfg.jj_symbol = <<>> /\ cfg.git_symbol = <<>>
            /\ ~call.no_symbol =>
                  /\ cfg.jj_symbol =
                        Precedence(call.jj_symbol, TextIn(env[JJ_SYMBOL]), DEFAULT_JJ_SYMBOL)
                  /\ cfg.git_symbol =
                        Precedence(call.git_symbol, TextIn(env[GIT_SYMBOL]), DEFAULT_GIT_SYMBOL)

\* every option given on the command line while its variable is set too
C10_Witness ==
    /\ call.fn = "config_new" /\ ret.done
    /\ ~call.no_symbol
    /\ call.truncate_name = Some(3) /\ call.env[TRUNCATE_NAME] = Text(<<"1", "2">>)
    /\ call.id_length = Some(4) /\ call.env[ID_LENGTH] = Text(<<"6">>)
    /\ call.jj_symbol = Some(<<"J">>) /\ call.env[JJ_SYMBOL] = Text(<<"E">>)
    /\ call.git_symbol = Some(<<"G">>) /\ call.env[GIT_SYMBOL] = Text(<<"F">>)
    /\ ret.val.truncate_name = 3 /\ ret.val.id_length = 4
    /\ ret.val.jj_symbol = <<"J">> /\ ret.val.git_symbol = <<"G">>

\* C10 as stated: strict precedence for all four options, and a value
\* given on the command line is never overridden
C10_Original ==
    (call.fn = "config_new" /\ ret.done) =>
        LET env == call.env
            cfg == ret.val
        IN  /\ cfg.truncate_name =
                  Precedence(call.truncate_name, NumberIn(env[TRUNCATE_NAME]), 0)
            /\ cfg.id_length =
                  Precedence(call.id_length, NumberIn(env[ID_LENGTH]), 8)
            /\ cfg.jj_symbol =
                  Precedence(call.jj_symbol, TextIn(env[JJ_SYMBOL]), DEFAULT_JJ_SYMBOL)
            /\ cfg.git_symbol =
                  Precedence(call.git_symbol, TextIn(env[GIT_SYMBOL]), DEFAULT_GIT_SYMBOL)

-----------------------------------------------------------------------------
(* Repository detection (detect.rs, not part of the sources at hand:       *)
(* modelled from the specification, section 4.1)                           *)

(* The directories from the working directory up to the filesystem root    *)
(* are a chain: chain[1] is the working directory, chain[Len(chain)] the   *)
(* root.  Each entry is the set of backend markers the directory holds.    *)
Markers == {"jj", "git"}

RECURSIVE Chains(_)
\* the chains of a working directory at most d levels below the root
Chains(d) ==
    IF d = 0 THEN {<<m>> : m \in SUBSET Markers}
    ELSE Chains(d - 1)
         \cup {<<m>> \o c : m \in SUBSET Markers, c \in {x \in Chains(d - 1) : Len(x) = d}}

RECURSIVE DetectFromSingleFirst(_, _)
\* the single-backend tests made before the test for both markers
DetectFromSingleFirst(chain, i) ==
    IF i > Len(chain) THEN [repo_type |-> "None", repo_root |-> None]
    ELSE IF "jj" \in chain[i] THEN [repo_type |-> "Jj", repo_root |-> Some(i)]
    ELSE IF "git" \in chain[i] THEN [repo_type |-> "Git", repo_root |-> Some(i)]
    ELSE DetectFromSingleFirst(chain, i + 1)

RECURSIVE DetectFrom(_, _)
\* detect::detect: the classification of the innermost marked directory
DetectFrom(chain, i) ==
    IF i > Len(chain) THEN [repo_type |-> "None", repo_root |-> None]
    ELSE IF chain[i] = {"jj", "git"} THEN [repo_type |-> "JjColocated", repo_root |-> Some(i)]
    ELSE IF chain[i] = {"jj"} THEN [repo_type |-> "Jj", repo_root |-> Some(i)]
    ELSE IF chain[i] = {"git"} THEN [repo_type |-> "Git", repo_root |-> Some(i)]
    ELSE DetectFrom(chain, i + 1)

Detect(chain) == DetectFrom(chain, 1)

RECURSIVE InRepoFrom(_, _)
\* detect::in_repo: the same walk, stopping at the first marker of any kind
InRepoFrom(chain, i) ==
    IF i > Len(chain) THEN FALSE
    ELSE IF "jj" \in chain[i] \/ "git" \in chain[i] THEN TRUE
    ELSE InRepoFrom(chain, i + 1)

InRepo(chain) == InRepoFrom(chain, 1)

-----------------------------------------------------------------------------
(* The Git reader (git.rs) *)

CONFLICTED == "CONFLICTED"
IndexChanges ==
    {"INDEX_NEW", "INDEX_MODIFIED", "INDEX_DELETED", "INDEX_RENAMED", "INDEX_TYPECHANGE"}
WtChanges == {"WT_MODIFIED", "WT_TYPECHANGE"}

\* the loop over statuses.iter(): a conflicted entry counts only as conflicted
CountStatuses(entries) ==
    LET live == {i \in DOMAIN entries : CONFLICTED \notin entries[i]}
        count(S) == Cardinality({i \in live : entries[i] \cap S # {}})
    IN  [conflicted |-> Cardinality({i \in DOMAIN entries : CONFLICTED \in entries[i]}),
         staged |-> count(IndexChanges),
         modified |-> count(WtChanges),
         deleted |-> count({"WT_DELETED"}),
         untracked |-> count({"WT_NEW"})]

REFS_HEADS == "refs/heads/"

\* the symbolic target as it stands, prefix included
UnbornBranchWholeTarget(repo) ==
    IF repo.head_ref.some
    THEN Some(<<repo.head_ref.val.prefix>> \o repo.head_ref.val.name) ELSE None

\* find_reference("HEAD") .. symbolic_target() .. strip_prefix("refs/heads/")
UnbornBranch(repo) ==
    IF repo.head_ref.some /\ repo.head_ref.val.prefix = REFS_HEADS
    THEN Some(repo.head_ref.val.name) ELSE None

\* get_ahead_behind
GetAheadBehind(repo) ==
    IF ~repo.head_detached.ok THEN Err("head_detached")
    ELSE IF repo.head_detached.val THEN Ok(<<0, 0>>)
    ELSE IF ~repo.head.val.shorthand.some THEN Err("no branch name")
    ELSE IF ~repo.find_branch_ok THEN Err("find_branch")
    ELSE IF ~repo.upstream.ok THEN Err("upstream")
    ELSE IF ~repo.head.val.commit.ok THEN Err("peel_to_commit")
    ELSE IF ~repo.upstream.val.commit_ok THEN Err("upstream peel_to_commit")
    ELSE repo.upstream.val.graph

\* a propagating `?` in place of the fallback: a failed lookup fails the read
AheadBehindPropagated(info, ab) ==
    IF ab.ok THEN Ok([info EXCEPT !.ahead = ab.val[1], !.behind = ab.val[2]])
    ELSE Err("ahead_behind")

\* get_ahead_behind(&repo, &head).unwrap_or((0, 0)) and the snapshot built from it
AheadBehindOrZero(info, ab) ==
    LET pair == IF ab.ok THEN ab.val ELSE <<0, 0>>
    IN  Ok([info EXCEPT !.ahead = pair[1], !.behind = pair[2]])

\* git::collect
GitCollect(repo, id_length) ==
    IF ~repo.open_ok THEN Err("open")
    ELSE IF ~repo.statuses.ok THEN Err("statuses")
    ELSE
    LET n == CountStatuses(repo.statuses.val)
    IN  IF ~repo.head.ok
        THEN Ok([branch |-> UnbornBranch(repo),
                 head_short |-> <<"e", "m", "p", "t", "y">>,
                 staged |-> n.staged, modified |-> n.modified,
                 untracked |-> n.untracked, deleted |-> n.deleted,
                 conflicted |-> n.conflicted, ahead |-> 0, behind |-> 0])
        ELSE IF ~repo.head_detached.ok THEN Err("head_detached")
        ELSE IF ~repo.head.val.commit.ok THEN Err("peel_to_commit")
        ELSE
        LET branch == IF repo.head_detached.val THEN None ELSE repo.head.val.shorthand
            full_hash == repo.head.val.commit.val
        IN  AheadBehindOrZero(
                [branch |-> branch,
                 head_short |-> Take(full_hash, id_length),
                 staged |-> n.staged, modified |-> n.modified,
                 untracked |-> n.untracked, deleted |-> n.deleted,
                 conflicted |-> n.conflicted, ahead |-> 0, behind |-> 0],
                GetAheadBehind(repo))

\* a commit hash: ten characters stand for the forty of a SHA-1
FullHash == <<"a", "3", "b", "4", "c", "5", "d", "6", "e", "7">>

\* a repository on branch m, one untracked file, tracking an upstream
GoodGitRepo ==
    [open_ok |-> TRUE,
     statuses |-> Ok(<<{"WT_NEW"}>>),
     head |-> Ok([shorthand |-> Some(<<"m">>), commit |-> Ok(FullHash)]),
     head_ref |-> Some([prefix |-> REFS_HEADS, name |-> <<"m">>]),
     head_detached |-> Ok(FALSE),
     find_branch_ok |-> TRUE,
     upstream |-> Ok([commit_ok |-> TRUE, graph |-> Ok(<<12, 0>>)])]

\* the repositories main is run on: a good one, one for each failure the
\* reader can meet, a detached one, one without commits
MainGitRepos ==
    {GoodGitRepo,
     [GoodGitRepo EXCEPT !.open_ok = FALSE],
     [GoodGitRepo EXCEPT !.statuses = Err("statuses")],
     [GoodGitRepo EXCEPT !.head = Err("unborn")],
     [GoodGitRepo EXCEPT !.head_detached = Err("head_detached")],
     [GoodGitRepo EXCEPT !.head_detached = Ok(TRUE)],
     [GoodGitRepo EXCEPT !.head.val.commit = Err("peel")],
     [GoodGitRepo EXCEPT !.upstream = Err("no upstream")],
     [GoodGitRepo EXCEPT !.statuses = Ok(<<{"INDEX_NEW", "WT_MODIFIED"}, {CONFLICTED}>>)]}

\* the backend calls whose error git::collect returns
GitReadFails(repo) ==
    \/ ~repo.open_ok
    \/ ~repo.statuses.ok
    \/ repo.head.ok /\ (~repo.head_detached.ok \/ ~repo.head.val.commit.ok)

-----------------------------------------------------------------------------
(* The JJ reader (jj.rs, not part of the sources at hand: modelled from    *)
(* the specification, section 4.2)                                         *)

\* jj::collect: an error when the repository cannot be opened or read,
\* otherwise the snapshot with the change id cut to id_length
JjCollect(repo, id_length) ==
    IF ~repo.open_ok THEN Err("open")
    ELSE IF ~repo.status_ok THEN Err("status")
    ELSE Ok([change_id |-> Take(repo.change_id, id_length),
             bookmark |-> repo.bookmark,
             empty_desc |-> repo.empty_desc, conflict |-> repo.conflict,
             divergent |-> repo.divergent,
             has_remote |-> repo.has_remote, is_synced |-> repo.is_synced])

GoodJjRepo ==
    [open_ok |-> TRUE, status_ok |-> TRUE,
     change_id |-> <<"k", "z", "x", "v", "y", "w", "q", "p", "o", "n">>,
     bookmark |-> Some(<<"m", "a", "i", "n">>),
     empty_desc |-> TRUE, conflict |-> FALSE, divergent |-> FALSE,
     has_remote |-> TRUE, is_synced |-> FALSE]

MainJjRepos ==
    {GoodJjRepo,
     [GoodJjRepo EXCEPT !.open_ok = FALSE],
     [GoodJjRepo EXCEPT !.status_ok = FALSE],
     [GoodJjRepo EXCEPT !.bookmark = None]}

JjReadFails(repo) == ~repo.open_ok \/ ~repo.status_ok

-----------------------------------------------------------------------------
(* main and run_prompt (main.rs) *)

SUCCESS == 0
FAILURE == 1

\* the build: the backends compiled in (at least one)
FeatureSets == {{"git"}, {"jj"}, {"git", "jj"}}

Clis ==
    [command : {None, Some("Prompt"), Some("Detect")},
     cwd : {None, Some("dir")},
     truncate_name : {None, Some(2)},
     id_length : {None, Some(4)},
     no_symbol : BOOLEAN,
     no_jj_name : BOOLEAN]

Worlds ==
    [current_dir_ok : BOOLEAN,
     features : FeatureSets,
     chain : Chains(MaxDepth),
     env : {EmptyEnv, [EmptyEnv EXCEPT ![EnvName(NO_GIT, "_STATUS")] = Text(<<>>)]}]

Init ==
    /\ pc = "start"
    /\ cli \in Clis
    /\ world \in Worlds
    /\ cwd = None
    /\ config = None
    /\ result = None
    /\ collected = None
    /\ output = None
    /\ stdout = <<>>
    /\ exitCode = None
    /\ fmtCalls = 0
    /\ call = NoCall
    /\ ret = NotReturned

\* cli.command.unwrap_or(Command::Prompt)
Command == UnwrapOr(cli.command, "Prompt")

\* the arguments main passes to Config::new; of the display flags the
\* model sets only no_jj_name
MainConfigArgs ==
    [truncate_name |-> cli.truncate_name,
     id_length |-> cli.id_length,
     jj_symbol |-> None,
     git_symbol |-> None,
     no_symbol |-> cli.no_symbol,
     jj_flags |-> [NoFlags EXCEPT !.no_name = cli.no_jj_name],
     git_flags |-> NoFlags,
     env |-> world.env]

\* let Some(cwd) = cli.cwd.or_else(|| env::current_dir().ok()) else { return FAILURE }
ResolveCwd ==
    /\ pc = "start"
    /\ LET c == OrElse(cli.cwd, IF world.current_dir_ok THEN Some("dir") ELSE None)
       IN  /\ cwd' = c
           /\ IF c.some
              THEN pc' = "config" /\ UNCHANGED exitCode
              ELSE pc' = "done" /\ exitCode' = Some(FAILURE)
    /\ UNCHANGED <<cli, world, config, result, collected, output, stdout, fmtCalls,
                   call, ret>>

BuildConfig ==
    /\ pc = "config"
    /\ config' = Some(ConfigNew(MainConfigArgs))
    /\ pc' = "dispatch"
    /\ UNCHANGED <<cli, world, cwd, result, collected, output, stdout, exitCode,
                   fmtCalls, call, ret>>

\* the Git arms placed first: a colocated repository is read by Git
\* whenever Git is compiled in
PromptArmGitFirst(repo_type, features) ==
    CASE repo_type \in {"Git", "JjColocated"} /\ "git" \in features -> "git"
      [] repo_type \in {"Jj", "JjColocated"} /\ "jj" \in features -> "jj"
      [] OTHER -> "none"

\* the arm of run_prompt's match that a classification takes in a build
PromptArm(repo_type, features) ==
    CASE repo_type \in {"Jj", "JjColocated"} /\ "jj" \in features -> "jj"
      [] repo_type = "JjColocated" /\ "git" \in features /\ "jj" \notin features -> "git"
      [] repo_type = "Git" /\ "git" \in features -> "git"
      [] OTHER -> "none"

\* run_prompt: detect::detect(cwd) and the match on its repo_type
RunPromptDetect ==
    /\ pc = "dispatch"
    /\ Command = "Prompt"
    /\ LET r == Detect(world.chain)
           arm == PromptArm(r.repo_type, world.features)
       IN  /\ result' = Some(r)
           /\ IF arm = "none" \/ ~r.repo_root.some
              THEN output' = Some(None) /\ pc' = "print"
              ELSE UNCHANGED output /\ pc' = IF arm = "jj" THEN "collect_jj" ELSE "collect_git"
    /\ UNCHANGED <<cli, world, cwd, config, collected, stdout, exitCode, fmtCalls,
                   call, ret>>

\* a failed read goes on to the formatter
AfterCollectNoReturn(res, formatAt) == formatAt

\* collect(..).ok()?: a failed read ends run_prompt with None
AfterCollect(res, formatAt) == IF res.ok THEN formatAt ELSE "print"

CollectJj ==
    /\ pc = "collect_jj"
    /\ \E repo \in MainJjRepos :
          LET res == JjCollect(repo, config.val.id_length)
          IN  /\ collected' = Some([backend |-> "jj", repo |-> repo, res |-> res])
              /\ pc' = AfterCollect(res, "format_jj")
              /\ IF res.ok THEN UNCHANGED output ELSE output' = Some(None)
    /\ UNCHANGED <<cli, world, cwd, config, result, stdout, exitCode, fmtCalls, call, ret>>

CollectGit ==
    /\ pc = "collect_git"
    /\ \E repo \in MainGitRepos :
          LET res == GitCollect(repo, config.val.id_length)
          IN  /\ collected' = Some([backend |-> "git", repo |-> repo, res |-> res])
              /\ pc' = AfterCollect(res, "format_git")
              /\ IF res.ok THEN UNCHANGED output ELSE output' = Some(None)
    /\ UNCHANGED <<cli, world, cwd, config, result, stdout, exitCode, fmtCalls, call, ret>>

\* Some(output::format_jj(&info, config))
FormatJjStep ==
    /\ pc = "format_jj"
    /\ output' = Some(Some(FormatJj(collected.val.res.val, config.val)))
    /\ fmtCalls' = fmtCalls + 1
    /\ pc' = "print"
    /\ UNCHANGED <<cli, world, cwd, config, result, collected, stdout, exitCode, call, ret>>

\* Some(output::format_git(&info, config))
FormatGitStep ==
    /\ pc = "format_git"
    /\ output' = Some(Some(FormatGit(collected.val.res.val, config.val)))
    /\ fmtCalls' = fmtCalls + 1
    /\ pc' = "print"
    /\ UNCHANGED <<cli, world, cwd, config, result, collected, stdout, exitCode, call, ret>>

\* if let Some(output) = run_prompt(..) { print!("{output}") }
Printed(out) == IF out.some THEN out.val ELSE <<>>

\* Command::Prompt => { print!; ExitCode::SUCCESS }
PrintOutput ==
    /\ pc = "print"
    /\ stdout' = stdout \o Printed(output.val)
    /\ exitCode' = Some(SUCCESS)
    /\ pc' = "done"
    /\ UNCHANGED <<cli, world, cwd, config, result, collected, output, fmtCalls, call, ret>>

\* the exit codes exchanged
DetectExitSwapped(found) == IF found THEN FAILURE ELSE SUCCESS

\* if detect::in_repo(&cwd) { SUCCESS } else { FAILURE }
DetectExit(found) == IF found THEN SUCCESS ELSE FAILURE

\* Command::Detect
DetectCmd ==
    /\ pc = "dispatch"
    /\ Command = "Detect"
    /\ exitCode' = Some(DetectExit(InRepo(world.chain)))
    /\ pc' = "done"
    /\ UNCHANGED <<cli, world, cwd, config, result, collected, output, stdout, fmtCalls,
                   call, ret>>

Next ==
    \/ ResolveCwd
    \/ BuildConfig
    \/ RunPromptDetect
    \/ CollectJj
    \/ CollectGit
    \/ FormatJjStep
    \/ FormatGitStep
    \/ PrintOutput
    \/ DetectCmd

Spec == Init /\ [][Next]_vars

-----------------------------------------------------------------------------
\* C1: the prompt action exits with code 0 on every path of main
C1_PromptExitsZero ==
    (pc = "done" /\ Command = "Prompt") => exitCode = Some(SUCCESS)

\* detection found no repository, or the reader met a failure it reports
PromptFailure ==
    \/ result.some /\ result.val.repo_type = "None"
    \/ /\ collected.some
       /\ \/ collected.val.backend = "git" /\ GitReadFails(collected.val.repo)
          \/ collected.val.backend = "jj" /\ JjReadFails(collected.val.repo)

C3_DetectExit ==
    (Command = "Detect") =>
        /\ stdout = <<>>
        /\ pc = "done" =>
              /\ exitCode \in {Some(SUCCESS), Some(FAILURE)}
              /\ exitCode = Some(SUCCESS) <=>
                    (cwd.some /\ Detect(world.chain).repo_type # "None")

\* the marker sits in the parent of the working directory
C3_Witness ==
    /\ Command = "Detect" /\ pc = "done"
    /\ Len(world.chain) = 2 /\ world.chain[1] = {} /\ world.chain[2] = {"git"}
    /\ exitCode = Some(SUCCESS) /\ stdout = <<>>

-----------------------------------------------------------------------------
(* git::collect as a function of what libgit2 answers: every combination   *)
(* of the calls collect and get_ahead_behind make, over a few status lists *)

MaxEntries == 2

\* the flags of one status entry
StatusFlags ==
    {{"WT_NEW"}, {"INDEX_NEW", "WT_MODIFIED"}, {"WT_DELETED"},
     {CONFLICTED, "INDEX_MODIFIED"}, {"INDEX_RENAMED"}}

\* repo.head(): an error, or a reference with its shorthand and its commit
Heads ==
    {Err("unborn")} \cup
    {Ok([shorthand |-> s, commit |-> c]) :
        s \in {None, Some(<<"m">>)}, c \in {Err("peel"), Ok(FullHash)}}

\* what HEAD points at symbolically, if anything
HeadRefs ==
    {None, Some([prefix |-> REFS_HEADS, name |-> <<"m">>]),
     Some([prefix |-> "refs/remotes/", name |-> <<"o">>])}

\* branch.upstream(), the upstream's commit and graph_ahead_behind
Upstreams ==
    {Err("no upstream")} \cup
    {Ok([commit_ok |-> c, graph |-> g]) :
        c \in BOOLEAN, g \in {Err("graph"), Ok(<<12, 3>>)}}

GitRepos ==
    [open_ok : BOOLEAN,
     statuses : {Err("statuses")} \cup {Ok(e) : e \in SeqsUpTo(StatusFlags, MaxEntries)},
     head : Heads,
     head_ref : HeadRefs,
     head_detached : {Err("head_detached"), Ok(TRUE), Ok(FALSE)},
     find_branch_ok : BOOLEAN,
     upstream : Upstreams]

\* shorter and longer than FullHash
IdLengths == {4, 12}

InitGit ==
    /\ MainIdle
    /\ call \in [fn : {"git_collect"}, repo : GitRepos, id_length : IdLengths]
    /\ ret = NotReturned

ApplyGitCollect ==
    /\ call.fn = "git_collect"
    /\ ~ret.done
    /\ ret' = Returned(GitCollect(call.repo, call.id_length))
    /\ UNCHANGED <<call, mainVars>>

SpecGit == InitGit /\ [][ApplyGitCollect]_vars

\* the five file counts of a snapshot
Counts(info) ==
    [conflicted |-> info.conflicted, staged |-> info.staged,
     modified |-> info.modified, deleted |-> info.deleted,
     untracked |-> info.untracked]

\* every call collect itself depends on answers, and HEAD has a commit
Readable(repo) ==
    /\ repo.open_ok
    /\ repo.statuses.ok
    /\ repo.head.ok
    /\ repo.head_detached.ok
    /\ repo.head.val.commit.ok

\* HEAD is on a branch and one of the steps of the lookup fails: the branch
\* has no name, the branch is not found, it has no upstream, the upstream
\* has no commit, or the graph computation fails
LookupFails(repo) ==
    /\ ~repo.head_detached.val
    /\ \/ ~repo.head.val.shorthand.some
       \/ ~repo.find_branch_ok
       \/ ~repo.upstream.ok
       \/ ~repo.upstream.val.commit_ok
       \/ ~repo.upstream.val.graph.ok

\* the same repository with a branch that is found and has an upstream
WithLookup(repo) ==
    [repo EXCEPT !.find_branch_ok = TRUE,
                 !.upstream = Ok([commit_ok |-> TRUE, graph |-> Ok(<<12, 3>>)])]

(* C11: when collect's own reads succeed and the ahead/behind lookup fails *)
(* at any of its steps, collect still returns a snapshot; its ahead and    *)
(* behind are 0, and its branch, short id and file counts are those of the *)
(* repository itself and equal those returned when the lookup succeeds.    *)
C11_LookupFailure ==
    (call.fn = "git_collect" /\ ret.done
        /\ Readable(call.repo) /\ LookupFails(call.repo)) =>
    LET got == ret.val
        other == GitCollect(WithLookup(call.repo), call.id_length)
    IN  /\ got.ok
        /\ got.val.ahead = 0
        /\ got.val.behind = 0
        /\ got.val.branch = call.repo.head.val.shorthand
        /\ got.val.head_short = Take(call.repo.head.val.commit.val, call.id_length)
        /\ Counts(got.val) = CountStatuses(call.repo.statuses.val)
        /\ other.ok
        /\ other.val.branch = got.val.branch
        /\ other.val.head_short = got.val.head_short
        /\ Counts(other.val) = Counts(got.val)

\* a branch without upstream, one untracked file: the snapshot is returned
\* with zeros where the same repository with an upstream reports 12 and 3
C11_Witness ==
    /\ call.fn = "git_collect"
    /\ ret.done
    /\ Readable(call.repo)
    /\ ~call.repo.head_detached.val
    /\ call.repo.head.val.shorthand.some
    /\ call.repo.find_branch_ok
    /\ ~call.repo.upstream.ok
    /\ ret.val.ok
    /\ ret.val.val.ahead = 0
    /\ ret.val.val.behind = 0
    /\ ret.val.val.untracked = 1
    /\ ret.val.val.branch = Some(<<"m">>)
    /\ GitCollect(WithLookup(call.repo), call.id_length).val.ahead = 12

\* the same repository once HEAD has a commit on a branch
WithCommits(repo) ==
    [repo EXCEPT !.head = Ok([shorthand |-> Some(<<"m">>), commit |-> Ok(FullHash)]),
                 !.head_detached = Ok(FALSE)]

(* C12: when the repository opens, its statuses can be read and HEAD does  *)
(* not resolve (no commit yet), collect returns a snapshot: the branch is  *)
(* what follows refs/heads/ in HEAD's symbolic target, absent when there   *)
(* is no such target or it lies elsewhere; the short id is "empty" for     *)
(* every id_length; ahead and behind are 0; the five counts are those of   *)
(* the status list, the same as for the repository with commits.           *)
C12_EmptyRepo ==
    (call.fn = "git_collect" /\ ret.done
        /\ call.repo.open_ok /\ call.repo.statuses.ok /\ ~call.repo.head.ok) =>
    LET got == ret.val
        target == call.repo.head_ref
        later == GitCollect(WithCommits(call.repo), call.id_length)
    IN  /\ got.ok
        /\ (target.some /\ target.val.prefix = "refs/heads/")
              => got.val.branch = Some(target.val.name)
        /\ (~target.some \/ target.val.prefix # "refs/heads/")
              => got.val.branch = None
        /\ got.val.head_short = <<"e", "m", "p", "t", "y">>
        /\ got.val.ahead = 0
        /\ got.val.behind = 0
        /\ Counts(got.val) = CountStatuses(call.repo.statuses.val)
        /\ later.ok
        /\ Counts(later.val) = Counts(got.val)

\* no commit yet on branch m, a conflicted file, id_length 4: the short id
\* is the five-character placeholder
C12_Witness ==
    /\ call.fn = "git_collect"
    /\ ret.done
    /\ call.repo.open_ok
    /\ ~call.repo.head.ok
    /\ call.repo.head_ref = Some([prefix |-> REFS_HEADS, name |-> <<"m">>])
    /\ call.id_length = 4
    /\ ret.val.ok
    /\ ret.val.val.branch = Some(<<"m">>)
    /\ ret.val.val.head_short = <<"e", "m", "p", "t", "y">>
    /\ ret.val.val.conflicted = 1
    /\ ret.val.val.staged = 0

-----------------------------------------------------------------------------
\* the formatter of a backend applied to the snapshot that backend returned
Rendering(c) ==
    IF c.backend = "jj" THEN FormatJj(c.res.val, config.val)
    ELSE FormatGit(c.res.val, config.val)

(* C13: in prompt mode, for a working directory classified as colocated,   *)
(* the one reader that is called is JJ's when the jj backend is compiled   *)
(* in and Git's otherwise; the formatter runs at most once; what           *)
(* run_prompt returns and main prints is the rendering of that reader's    *)
(* snapshot by that backend's formatter, and nothing when its read fails.  *)
C13_ColocatedBackend ==
    (Command = "Prompt" /\ result.some /\ result.val.repo_type = "JjColocated") =>
    LET backend == IF "jj" \in world.features THEN "jj" ELSE "git"
    IN  /\ pc \in {"collect_jj", "format_jj"} => backend = "jj"
        /\ pc \in {"collect_git", "format_git"} => backend = "git"
        /\ collected.some => collected.val.backend = backend
        /\ fmtCalls <= 1
        /\ pc \in {"print", "done"} =>
              /\ collected.some
              /\ output.some
              /\ output.val = IF collected.val.res.ok
                              THEN Some(Rendering(collected.val)) ELSE None
              /\ fmtCalls = IF collected.val.res.ok THEN 1 ELSE 0
        /\ pc = "done" => stdout = Printed(output.val)

\* both backends compiled in, a colocated directory: JJ's snapshot is read
\* and its rendering printed
C13_Witness ==
    /\ Command = "Prompt"
    /\ pc = "done"
    /\ result.some /\ result.val.repo_type = "JjColocated"
    /\ world.features = {"git", "jj"}
    /\ collected.some /\ collected.val.backend = "jj"
    /\ collected.val.res.ok
    /\ stdout = FormatJj(collected.val.res.val, config.val)
    /\ stdout # <<>>
    /\ fmtCalls = 1

-----------------------------------------------------------------------------
(* detect::detect as a function of the directory chain (detect.rs, not     *)
(* part of the sources at hand: modelled from the specification, 4.1)      *)

MaxAncestors == 3

InitDetect ==
    /\ MainIdle
    /\ call \in [fn : {"detect"}, chain : Chains(MaxAncestors)]
    /\ ret = NotReturned

ApplyDetect ==
    /\ call.fn = "detect"
    /\ ~ret.done
    /\ ret' = Returned(Detect(call.chain))
    /\ UNCHANGED <<call, mainVars>>

SpecDetect == InitDetect /\ [][ApplyDetect]_vars

\* the directories of a chain that hold a marker, by distance from the start
Marked(chain) == {i \in DOMAIN chain : chain[i] # {}}

\* the marked directory nearest to the start
Innermost(chain) == CHOOSE i \in Marked(chain) : \A j \in Marked(chain) : i <= j

(* C14: the classification is None, without repoRoot, exactly when no      *)
(* directory from the start up to the root holds a marker.  Otherwise      *)
(* repoRoot is the marked directory nearest to the start (the start         *)
(* included), and the classification is Colocated when that directory      *)
(* holds both markers, else the backend of its one marker; whatever the    *)
(* directories above it hold, and however many there are, the result is    *)
(* the same.                                                                *)
C14_InnermostMarker ==
    (call.fn = "detect" /\ ret.done) =>
    LET chain == call.chain
        r == ret.val
    IN  /\ r.repo_type = "None" <=> Marked(chain) = {}
        /\ r.repo_type = "None" <=> ~r.repo_root.some
        /\ Marked(chain) # {} =>
              LET i == Innermost(chain)
              IN  /\ r.repo_root = Some(i)
                  /\ ("jj" \in chain[i] /\ "git" \in chain[i]) => r.repo_type = "JjColocated"
                  /\ ("jj" \in chain[i] /\ "git" \notin chain[i]) => r.repo_type = "Jj"
                  /\ ("git" \in chain[i] /\ "jj" \notin chain[i]) => r.repo_type = "Git"
                  /\ Detect(SubSeq(chain, 1, i)) = r
                  /\ \A other \in Chains(MaxAncestors) :
                        (Len(other) >= i /\ SubSeq(other, 1, i) = SubSeq(chain, 1, i))
                            => Detect(other) = r

\* an unmarked start directory, both markers in its parent and a Git
\* marker above: Colocated, rooted at the parent
C14_Witness ==
    /\ call.fn = "detect"
    /\ ret.done
    /\ Len(call.chain) >= 3
    /\ call.chain[1] = {}
    /\ call.chain[2] = {"jj", "git"}
    /\ call.chain[3] = {"git"}
    /\ ret.val = [repo_type |-> "JjColocated", repo_root |-> Some(2)]

====
